---- MODULE Spec2Model ----
(***************************************************************************)
(* Model of spherical2images/utils_images.py: cubemap_splitter,            *)
(* download_clip_img, clean_files and process_image, over an abstract      *)
(* file system.  A file name is the sequence of the pieces the f-strings   *)
(* concatenate: the characters of the image id, then "_", a face name and  *)
(* ".jpg".  A path is <<sequence_id, file name>> below output_images_path. *)
(***************************************************************************)
EXTENDS Integers, Sequences, FiniteSets, TLC

\* ------------------------------------------------------------------ bounds
MaxSplitSides == 2      \* longest requested face list of the extractor runs
MaxTiles == 2           \* tiles one batch requests: features times faces
MaxFlattenFeatures == 2  \* features of a batch in the flatten runs
MaxRuns == 2            \* process_image invocations on the same output root
MaxRemoveErrors == 1    \* os.remove failures in one clean_files call

\* --------------------------------------------------------- program constants
horizontal_chunks == 4
vertical_chunks == 3

Faces == {"top", "left", "front", "right", "back", "bottom"}

index_dict ==
  (<<1, 0>> :> "top") @@ (<<0, 1>> :> "left") @@ (<<1, 1>> :> "front") @@
  (<<2, 1>> :> "right") @@ (<<3, 1>> :> "back") @@ (<<1, 2>> :> "bottom")

\* Python's False in result_status; a path is a non-empty tuple, so it is truthy.
False == <<>>

Truthy(v) == v # False

\* ------------------------------------------------------------- inputs drawn
ClipSizes == {1, 2}
\* <<img_width, img_height>> of the image found at the cubemap path
CubemapDims == {<<4, 3>>, <<8, 6>>, <<6, 3>>}

\* ------------------------------------------------------------------ paths
EquirectangularName(image_id) == image_id \o <<".jpg">>

CubemapName(image_id) == image_id \o <<"_", "cubemap", ".jpg">>

ChunkName(image_id, side) == image_id \o <<"_", side, ".jpg">>

FilePath(sequence_id, name) == <<sequence_id, name>>

ChunkPath(sequence_id, image_id, side) == FilePath(sequence_id, ChunkName(image_id, side))

\* ------------------------------------------------------------ file contents
\* One shape for every file: what it holds (st) and the pixel box it came from.
NoBox == <<0, 0, 0, 0>>

EmptyFile == [st |-> "empty", box |-> NoBox]          \* opened "wb", nothing written
SourceImage == [st |-> "equirectangular", box |-> NoBox]
CubemapImage(dims) == [st |-> "cubemap", box |-> <<dims[1], dims[2], 0, 0>>]
TileImage(box) == [st |-> "tile", box |-> box]

WriteFile(files, path, content) ==
  [p \in (DOMAIN files) \cup {path} |-> IF p = path THEN content ELSE files[p]]

RemoveFiles(files, paths) == [p \in (DOMAIN files) \ paths |-> files[p]]

\* ----------------------------------------------------------- numpy slicing
Min(a, b) == IF a < b THEN a ELSE b

Max(a, b) == IF a > b THEN a ELSE b

\* a slice bound on an axis of length n: negative counts from the end, then clamp
SliceIndex(i, n) == IF i < 0 THEN Max(i + n, 0) ELSE Min(i, n)

\* img[y*r : y*r+h, x*r : x*r+w] as <<row0, row1, col0, col1>>, half-open
CropBox_swapped(img_width, img_height, r, size, x, y) ==
  <<SliceIndex(x * r, img_height), SliceIndex(x * r + size, img_height),
    SliceIndex(y * r, img_width), SliceIndex(y * r + size, img_width)>>

CropBox(img_width, img_height, r, size, x, y) ==
  <<SliceIndex(y * r, img_height), SliceIndex(y * r + size, img_height),
    SliceIndex(x * r, img_width), SliceIndex(x * r + size, img_width)>>

EmptyBox(box) == box[2] <= box[1] \/ box[4] <= box[3]

PartialFile == [st |-> "partial", box |-> NoBox]      \* opened "wb", save failed

\* -------------------------------------------------------- cubemap_splitter
\* What the environment does to one face's crop/convert/write:
\*   "none"  no error;  "open"  an exception before the tile file is created
\*   (cvtColor, fromarray, open);  "save"  an exception in img_.save, after
\*   open(chunk_img_path, "wb") created or truncated the file.
FaultKinds == {"none", "open", "save"}

InSides(side, cube_sides) == \E k \in 1..Len(cube_sides) : cube_sides[k] = side

\* cv2.imread gives an image only for a file that holds one
Readable(files, img_file_cubemap) ==
  img_file_cubemap \in DOMAIN files /\ files[img_file_cubemap].st = "cubemap"

\* the k-th cell of "for x in range(4): for y in range(3)"
GridCell_yOuter(k) == <<k % horizontal_chunks, k \div horizontal_chunks>>

GridCell(k) == <<k \div vertical_chunks, k % vertical_chunks>>

\* lines 57-67: the try block of one requested face
CropFace(acc, a, x, y) ==
  LET side == index_dict[<<x, y>>]
      r == a.img_width - a.img_height
      box == CropBox(a.img_width, a.img_height, r, a.image_clip_size, x, y)
      chunk_img_path == ChunkPath(a.sequence_id, a.image_id, side)
  IN  IF EmptyBox(box) \/ a.fault[side] = "open"
      THEN [acc EXCEPT !.status = Append(@, False),
                       !.outcome = Append(@, <<side, "no_file">>)]
      ELSE IF a.fault[side] = "save"
      THEN [acc EXCEPT !.files = WriteFile(@, chunk_img_path, PartialFile),
                       !.status = Append(@, False),
                       !.outcome = Append(@, <<side, "partial">>)]
      ELSE [acc EXCEPT !.files = WriteFile(@, chunk_img_path, TileImage(box)),
                       !.status = Append(@, chunk_img_path),
                       !.outcome = Append(@, <<side, "written">>)]

\* lines 53-67: the grid scan from cell k on
RECURSIVE ScanGrid(_, _, _)
ScanGrid(acc, a, k) ==
  IF k >= horizontal_chunks * vertical_chunks THEN acc
  ELSE LET cell == GridCell(k)
           hit == cell \in DOMAIN index_dict /\ InSides(index_dict[cell], a.cube_sides)
       IN  ScanGrid(IF hit THEN CropFace(acc, a, cell[1], cell[2]) ELSE acc, a, k + 1)

\* line 71: [False] * len(cube_sides.split(","))
TotalFailure_empty(cube_sides) == <<>>

TotalFailure(cube_sides) == [k \in 1..Len(cube_sides) |-> False]

\* lines 35-71.  Gives the file system after the call, the returned
\* status_response, and per attempted face what happened to its file.
cubemap_splitter(files, img_file_cubemap, image_clip_size, sequence_id, image_id, cube_sides, fault) ==
  IF ~Readable(files, img_file_cubemap)
  THEN [files |-> files, status |-> TotalFailure(cube_sides), outcome |-> <<>>,
        opened |-> FALSE]
  ELSE LET dims == files[img_file_cubemap].box
           a == [img_width |-> dims[1], img_height |-> dims[2],
                 image_clip_size |-> image_clip_size, sequence_id |-> sequence_id,
                 image_id |-> image_id, cube_sides |-> cube_sides, fault |-> fault]
           acc == ScanGrid([files |-> files, status |-> <<>>, outcome |-> <<>>], a, 0)
       IN  [files |-> acc.files, status |-> acc.status, outcome |-> acc.outcome,
            opened |-> TRUE]

\* ------------------------------------------------------------ clean_files
IsPrefix(s, t) == Len(s) <= Len(t) /\ SubSeq(t, 1, Len(s)) = s

\* glob.glob(f"{chumk_image_path}*.jpg"): the files of the folder whose name
\* starts with the characters of image_id and ends with ".jpg"
\* (Glob_underscore: the pattern f"{chumk_image_path}_*.jpg")
Glob_underscore(files, image_folder_path, image_id) ==
  {p \in DOMAIN files : p[1] = image_folder_path /\ Len(p[2]) > Len(image_id) + 1
                        /\ IsPrefix(image_id \o <<"_">>, p[2])
                        /\ p[2][Len(p[2])] = ".jpg"}

Glob(files, image_folder_path, image_id) ==
  {p \in DOMAIN files : p[1] = image_folder_path /\ Len(p[2]) > Len(image_id)
                        /\ IsPrefix(image_id, p[2]) /\ p[2][Len(p[2])] = ".jpg"}

\* line 152
images_generate(image_folder_path, image_id, cube_sides) ==
  {ChunkPath(image_folder_path, image_id, cube_sides[k]) : k \in 1..Len(cube_sides)}

\* line 153
images_remove(files, image_folder_path, image_id, cube_sides) ==
  Glob(files, image_folder_path, image_id)
    \ images_generate(image_folder_path, image_id, cube_sides)

\* ------------------------------------------------------ download_clip_img
Feature(sequence_id, image_id) ==
  [properties |-> [sequence_id |-> sequence_id, id |-> image_id]]

\* lines 103-104 and 134-135: a deep copy with image_path set
NewFeature(feature, image_path) ==
  [properties |-> [sequence_id |-> feature.properties.sequence_id,
                   id |-> feature.properties.id, image_path |-> image_path]]

\* line 101
AllChunksExist(files, feature, sides) ==
  \A k \in 1..Len(sides) :
    ChunkPath(feature.properties.sequence_id, feature.properties.id, sides[k])
      \in DOMAIN files

\* lines 102-105
FastPathResults(feature, sides) ==
  [k \in 1..Len(sides) |->
     NewFeature(feature, ChunkPath(feature.properties.sequence_id,
                                   feature.properties.id, sides[k]))]

\* lines 132-136
SlowPathResults_all(feature, result_status) ==
  [k \in 1..Len(result_status) |-> NewFeature(feature, result_status[k])]

SlowPathResults(feature, result_status) ==
  LET kept == SelectSeq(result_status, Truthy)
  IN  [k \in 1..Len(kept) |-> NewFeature(feature, kept[k])]

\* ----------------------------------------------------------- process_image
\* line 182: chain.from_iterable
RECURSIVE Chain(_)
Chain(results2d) ==
  IF results2d = <<>> THEN <<>> ELSE Head(results2d) \o Chain(Tail(results2d))

\* a dict is truthy when it has a key
TruthyRecord(rec) == DOMAIN rec # {}

\* lines 182-183
Flatten_dropFirst(results2d) ==
  IF results2d = <<>> THEN <<>> ELSE SelectSeq(Chain(Tail(results2d)), TruthyRecord)

Flatten(results2d) == SelectSeq(Chain(results2d), TruthyRecord)

\* ------------------------------------------------------------------ state
VARIABLES
  features,         \* the batch given to process_image
  cube_sides,       \* cube_sides.split(","), the requested faces
  image_clip_size,
  files,            \* path -> content, the files below output_images_path
  dirs,             \* the sequence folders that exist
  task,             \* per feature: where its download_clip_img call is, its locals
  batch,            \* process_image: pc, returned results, number of the run
  actor             \* the feature whose call took the last step (0: the driver)

vars == <<features, cube_sides, image_clip_size, files, dirs, task, batch, actor>>

\* did: the kinds of work this call has performed.  failed: the steps that
\* hit an error ("imread": the cubemap could not be read; "extract": a face
\* failed; "cleanup": an os.remove raised; "remove": a file that exists could
\* not be removed).  present: whether every requested tile existed when the
\* call began.  outcome: what cubemap_splitter did per attempted face.
IdleTask ==
  [pc |-> "idle", result_status |-> <<>>, results |-> <<>>, to_remove |-> {},
   did |-> {}, failed |-> {}, present |-> FALSE, outcome |-> <<>>]

NoFiles == [p \in {} |-> EmptyFile]

FeatureA == Feature("s1", <<"1">>)
FeatureB == Feature("s1", <<"1", "2">>)
FeatureC == Feature("s2", <<"3">>)

FeatureBatches == {<<FeatureA>>, <<FeatureA, FeatureB>>, <<FeatureA, FeatureC>>}

BatchClipSizes == {1}

BatchFaces == {"front", "back"}

\* the face lists a batch may request: duplicate-free lists over BatchFaces,
\* at most MaxTiles tiles over the whole batch
BatchSides(batch_features) ==
  {s \in {<<f>> : f \in BatchFaces}
         \cup {p \in BatchFaces \X BatchFaces : p[1] # p[2]} :
     Len(batch_features) * Len(s) <= MaxTiles}

SeqOf(i) == features[i].properties.sequence_id

IdOf(i) == features[i].properties.id

Running(i, at) == batch.pc = "running" /\ i \in DOMAIN task /\ task[i].pc = at

Init ==
  /\ features \in FeatureBatches
  /\ cube_sides \in BatchSides(features)
  /\ image_clip_size \in BatchClipSizes
  /\ files = NoFiles
  /\ dirs = {}
  /\ task = [i \in DOMAIN features |-> IdleTask]
  /\ batch = [pc |-> "running", results |-> <<>>, run |-> 1]
  /\ actor = 0

\* lines 85-87: the call begins and tests os.path.exists(image_folder_path)
Invoke(i) ==
  /\ Running(i, "idle")
  /\ task' = [task EXCEPT ![i].pc = IF SeqOf(i) \in dirs THEN "presence" ELSE "makedirs",
                          ![i].present = AllChunksExist(files, features[i], cube_sides)]
  /\ actor' = i
  /\ UNCHANGED <<features, cube_sides, image_clip_size, files, dirs, batch>>

\* line 88: os.makedirs raises FileExistsError on a folder that exists by now;
\* the call is outside the try block, so the error leaves download_clip_img
MakeDirs(i) ==
  /\ Running(i, "makedirs")
  /\ IF SeqOf(i) \in dirs
     THEN /\ task' = [task EXCEPT ![i].pc = "raised"]
          /\ dirs' = dirs
     ELSE /\ task' = [task EXCEPT ![i].pc = "presence"]
          /\ dirs' = dirs \cup {SeqOf(i)}
  /\ actor' = i
  /\ UNCHANGED <<features, cube_sides, image_clip_size, files, batch>>

\* lines 101-106: the presence check and the fast path
Presence(i) ==
  /\ Running(i, "presence")
  /\ IF AllChunksExist(files, features[i], cube_sides)
     THEN task' = [task EXCEPT ![i].pc = "done",
                               ![i].results = FastPathResults(features[i], cube_sides)]
     ELSE task' = [task EXCEPT ![i].pc = "request"]
  /\ actor' = i
  /\ UNCHANGED <<features, cube_sides, image_clip_size, files, dirs, batch>>

\* lines 109-115: the metadata request, then open the source file "wb",
\* fetch the image and write it.  "metadata": the request fails or the
\* response has no thumb_original_url; "open": open fails, no file; "fetch":
\* the file is created, then the request or the write fails and the file
\* stays as it is.  Each error is caught by the except of line 137.
FetchImage(i) ==
  /\ Running(i, "request")
  /\ LET src == FilePath(SeqOf(i), EquirectangularName(IdOf(i)))
     IN  \E how \in {"ok", "metadata", "open", "fetch"} :
           /\ files' = IF how \in {"metadata", "open"} THEN files
                       ELSE WriteFile(files, src,
                                      IF how = "ok" THEN SourceImage ELSE EmptyFile)
           /\ task' = [task EXCEPT
                         ![i].pc = IF how = "ok" THEN "convert" ELSE "done",
                         ![i].did = IF how \in {"metadata", "open"}
                                    THEN @ \cup {"request"}
                                    ELSE @ \cup {"request", "fetch"},
                         ![i].failed = IF how = "ok" THEN @ ELSE @ \cup {how}]
  /\ actor' = i
  /\ UNCHANGED <<features, cube_sides, image_clip_size, dirs, batch>>

\* line 118: convert360 --convert e2c ... --w {image_clip_size}
ProjectorDims(size) == <<horizontal_chunks * size, vertical_chunks * size>>

\* lines 118-119: os.system(convert360 ...); the exit status is not read.
\* Given a readable source the projector writes the 4x3 cubemap of faces of
\* side --w, or fails and writes nothing; the exit status is not read.
Convert(i) ==
  /\ Running(i, "convert")
  /\ LET src == FilePath(SeqOf(i), EquirectangularName(IdOf(i)))
         cub == FilePath(SeqOf(i), CubemapName(IdOf(i)))
         good == src \in DOMAIN files /\ files[src].st = "equirectangular"
     IN  \/ files' = files
         \/ /\ good
            /\ files' = WriteFile(files, cub, CubemapImage(ProjectorDims(image_clip_size)))
  /\ task' = [task EXCEPT ![i].pc = "split", ![i].did = @ \cup {"convert"}]
  /\ actor' = i
  /\ UNCHANGED <<features, cube_sides, image_clip_size, dirs, batch>>

\* lines 122-129: the call of cubemap_splitter
Split(i) ==
  /\ Running(i, "split")
  /\ \E fault \in [{cube_sides[k] : k \in 1..Len(cube_sides)} -> FaultKinds] :
       LET cub == FilePath(SeqOf(i), CubemapName(IdOf(i)))
           got == cubemap_splitter(files, cub, image_clip_size, SeqOf(i), IdOf(i),
                                   cube_sides, fault)
       IN  /\ files' = got.files
           /\ task' = [task EXCEPT
                         ![i].pc = "glob",
                         ![i].result_status = got.status,
                         ![i].outcome = got.outcome,
                         ![i].did = @ \cup {"split"},
                         ![i].failed =
                           IF ~got.opened THEN @ \cup {"imread"}
                           ELSE IF \E k \in 1..Len(got.outcome) :
                                     got.outcome[k][2] # "written"
                           THEN @ \cup {"extract"} ELSE @]
  /\ actor' = i
  /\ UNCHANGED <<features, cube_sides, image_clip_size, dirs, batch>>

\* lines 151-153 of clean_files: the glob and the list of files to remove
CleanGlob(i) ==
  /\ Running(i, "glob")
  /\ task' = [task EXCEPT ![i].pc = "remove",
                          ![i].to_remove = images_remove(files, SeqOf(i), IdOf(i), cube_sides),
                          ![i].did = @ \cup {"clean"}]
  /\ actor' = i
  /\ UNCHANGED <<features, cube_sides, image_clip_size, files, dirs, batch>>

\* lines 154-158, then 132-136: each os.remove either removes the file or
\* raises (the file is gone, or cannot be removed), which is caught; then the
\* records of the truthy statuses are collected and the call returns
CleanRemove(i) ==
  /\ Running(i, "remove")
  /\ \E errs \in SUBSET (task[i].to_remove \cap DOMAIN files) :
       /\ Cardinality(errs) <= MaxRemoveErrors
       /\ files' = RemoveFiles(files, task[i].to_remove \ errs)
       /\ task' = [task EXCEPT
                     ![i].pc = "done",
                     ![i].to_remove = {},
                     ![i].results = SlowPathResults(features[i], task[i].result_status),
                     ![i].failed =
                       @ \cup (IF errs # {} THEN {"remove"} ELSE {})
                         \cup (IF errs # {} \/ ~(task[i].to_remove \subseteq DOMAIN files)
                               THEN {"cleanup"} ELSE {})]
  /\ actor' = i
  /\ UNCHANGED <<features, cube_sides, image_clip_size, dirs, batch>>

\* lines 174-185: every call has returned; flatten and filter
ProcessImageReturn ==
  /\ batch.pc = "running"
  /\ \A i \in DOMAIN task : task[i].pc = "done"
  /\ batch' = [batch EXCEPT !.pc = "done",
                            !.results = Flatten([i \in DOMAIN task |-> task[i].results])]
  /\ actor' = 0
  /\ UNCHANGED <<features, cube_sides, image_clip_size, files, dirs, task>>

\* line 174: Parallel re-raises a worker's exception in process_image; the
\* calls still in flight are abandoned where they are
ProcessImageRaise ==
  /\ batch.pc = "running"
  /\ \E i \in DOMAIN task : task[i].pc = "raised"
  /\ batch' = [batch EXCEPT !.pc = "raised"]
  /\ actor' = 0
  /\ UNCHANGED <<features, cube_sides, image_clip_size, files, dirs, task>>

\* process_image is called again on the same output root, with the same
\* features and any requested faces
Rerun ==
  /\ batch.pc \in {"done", "raised"}
  /\ batch.run < MaxRuns
  /\ cube_sides' \in BatchSides(features)
  /\ task' = [i \in DOMAIN features |-> IdleTask]
  /\ batch' = [pc |-> "running", results |-> <<>>, run |-> batch.run + 1]
  /\ actor' = 0
  /\ UNCHANGED <<features, image_clip_size, files, dirs>>

Next ==
  \/ \E i \in DOMAIN task : Invoke(i)
  \/ \E i \in DOMAIN task : MakeDirs(i)
  \/ \E i \in DOMAIN task : Presence(i)
  \/ \E i \in DOMAIN task : FetchImage(i)
  \/ \E i \in DOMAIN task : Convert(i)
  \/ \E i \in DOMAIN task : Split(i)
  \/ \E i \in DOMAIN task : CleanGlob(i)
  \/ \E i \in DOMAIN task : CleanRemove(i)
  \/ ProcessImageReturn
  \/ ProcessImageRaise
  \/ Rerun

Spec == Init /\ [][Next]_vars

\* ------------------------------------------- the extractor on any cubemap
\* One call of download_clip_img taken from line 122 on: the image found at
\* the cubemap path has any of CubemapDims, or is missing.
SplitSides ==
  {s \in UNION {[1..n -> Faces] : n \in 1..MaxSplitSides} :
     \A j, k \in DOMAIN s : j # k => s[j] # s[k]}

InitSplit ==
  /\ features = <<FeatureA>>
  /\ cube_sides \in SplitSides
  /\ image_clip_size \in ClipSizes
  /\ \E cubemap \in CubemapDims \cup {<<>>} :
       LET src == FilePath("s1", EquirectangularName(<<"1">>))
           cub == FilePath("s1", CubemapName(<<"1">>))
           fetched == WriteFile(NoFiles, src, SourceImage)
       IN  files = IF cubemap = <<>> THEN fetched
                   ELSE WriteFile(fetched, cub, CubemapImage(cubemap))
  /\ dirs = {"s1"}
  /\ task = <<[IdleTask EXCEPT !.pc = "split",
                               !.did = {"request", "fetch", "convert"}]>>
  /\ batch = [pc |-> "running", results |-> <<>>, run |-> 1]
  /\ actor = 1

NextSplit ==
  \/ \E i \in DOMAIN task : Split(i)
  \/ \E i \in DOMAIN task : CleanGlob(i)
  \/ \E i \in DOMAIN task : CleanRemove(i)

SpecSplit == InitSplit /\ [][NextSplit]_vars

\* ------------------------------------------------- process_image's flatten
\* process_image at line 182: every call has returned, feature i with the
\* tiles of the first n[i] faces of the scan, 0 <= n[i] <= 6.
ScanOrder == <<"left", "top", "front", "bottom", "right", "back">>

CellOf(side) == CHOOSE c \in DOMAIN index_dict : index_dict[c] = side

FlattenPool == {FeatureA, FeatureB, FeatureC}

FlattenBatches ==
  {s \in UNION {[1..n -> FlattenPool] : n \in 1..MaxFlattenFeatures} :
     \A j, k \in DOMAIN s : j # k => s[j] # s[k]}

ReturnedTask(feature, n) ==
  LET status == [k \in 1..Len(ScanOrder) |->
                   IF k <= n
                   THEN ChunkPath(feature.properties.sequence_id,
                                  feature.properties.id, ScanOrder[k])
                   ELSE False]
  IN  [IdleTask EXCEPT !.pc = "done",
                       !.result_status = status,
                       !.results = SlowPathResults(feature, status),
                       !.did = {"request", "fetch", "convert", "split", "clean"},
                       !.failed = IF n < Len(ScanOrder) THEN {"extract"} ELSE {},
                       !.outcome = [k \in 1..Len(ScanOrder) |->
                                      <<ScanOrder[k],
                                        IF k <= n THEN "written" ELSE "no_file">>]]

InitFlatten ==
  /\ features \in FlattenBatches
  /\ cube_sides = ScanOrder
  /\ image_clip_size \in BatchClipSizes
  /\ \E n \in [DOMAIN features -> 0..Len(ScanOrder)] :
       /\ task = [i \in DOMAIN features |-> ReturnedTask(features[i], n[i])]
       /\ files =
            LET tiles == {<<i, k>> \in (DOMAIN features) \X (1..Len(ScanOrder)) : k <= n[i]}
                PathOf(t) == ChunkPath(features[t[1]].properties.sequence_id,
                                       features[t[1]].properties.id, ScanOrder[t[2]])
                dims == ProjectorDims(image_clip_size)
            IN  [p \in {PathOf(t) : t \in tiles} |->
                   LET t == CHOOSE u \in tiles : PathOf(u) = p
                       cell == CellOf(ScanOrder[t[2]])
                   IN  TileImage(CropBox(dims[1], dims[2], dims[1] - dims[2],
                                         image_clip_size, cell[1], cell[2]))]
  /\ dirs = {features[i].properties.sequence_id : i \in DOMAIN features}
  /\ batch = [pc |-> "running", results |-> <<>>, run |-> 1]
  /\ actor = 0

NextFlatten == ProcessImageReturn

SpecFlatten == InitFlatten /\ [][NextFlatten]_vars

\* ================================================================= claims
Returned(i) == task[i].pc = "done"

AfterSplit(i) == task[i].pc \in {"glob", "remove", "done"} /\ "split" \in task[i].did

SourcePath(i) == FilePath(SeqOf(i), EquirectangularName(IdOf(i)))

CubemapPath(i) == FilePath(SeqOf(i), CubemapName(IdOf(i)))

TilePath(i, side) == ChunkPath(SeqOf(i), IdOf(i), side)

RequestedTiles(i) == {TilePath(i, cube_sides[k]) : k \in 1..Len(cube_sides)}

\* the paths the path scheme gives feature i
OwnPaths(i) == {SourcePath(i), CubemapPath(i)} \cup {TilePath(i, side) : side \in Faces}

OwnFiles(i) == OwnPaths(i) \cap DOMAIN files

\* C1: a call that begins with every requested tile present does no request,
\* no conversion, no extraction and no cleanup, and returns one record per
\* requested face, in requested order, each naming that face's tile path.
C1_FastPath ==
  \A i \in DOMAIN task :
    (Returned(i) /\ task[i].present) =>
      /\ task[i].did = {}
      /\ Len(task[i].results) = Len(cube_sides)
      /\ \A k \in 1..Len(cube_sides) :
           task[i].results[k].properties.image_path = TilePath(i, cube_sides[k])

C3_NoCallRaises ==
  /\ batch.pc # "raised"
  /\ \A i \in DOMAIN task : task[i].pc # "raised"

\* C4: a step of feature i's call creates, changes or removes only files on
\* feature i's own paths.
C4_ScopedFileEffects ==
  [][\A p \in (DOMAIN files) \cup (DOMAIN files') :
       ( \/ (p \in DOMAIN files) # (p \in DOMAIN files')
         \/ (p \in DOMAIN files /\ p \in DOMAIN files' /\ files[p] # files'[p]) )
       => (actor' \in DOMAIN task /\ p \in OwnPaths(actor'))]_vars

\* C5: a call in which any step of the slow path failed returns no record.
C5_AnyFailureNoRecords ==
  \A i \in DOMAIN task : (Returned(i) /\ task[i].failed # {}) => task[i].results = <<>>

\* C5 as amended: a failure of the metadata request, of the response, of the
\* open, the fetch or the write of the source is caught and the call returns
\* no record; no error of the slow path leaves the call; a failure inside
\* cubemap_splitter or clean_files is contained there, and the call returns
\* the records of exactly the faces that were written, in scan order.
WrittenPaths(i) ==
  LET ok == SelectSeq(task[i].outcome, LAMBDA o : o[2] = "written")
  IN  [k \in 1..Len(ok) |-> TilePath(i, ok[k][1])]

C5_ErrorContainment ==
  \A i \in DOMAIN task :
    /\ (task[i].failed \cap {"metadata", "open", "fetch"} # {}) =>
         (Returned(i) /\ task[i].results = <<>>)
    /\ task[i].pc = "raised" => task[i].did = {}
    /\ (Returned(i) /\ "split" \in task[i].did) =>
         /\ Len(task[i].results) = Len(WrittenPaths(i))
         /\ \A k \in 1..Len(task[i].results) :
              task[i].results[k].properties.image_path = WrittenPaths(i)[k]

C5_Witness ==
  /\ \E i \in DOMAIN task :
       Returned(i) /\ "fetch" \in task[i].failed /\ task[i].results = <<>>
  /\ \E j \in DOMAIN task :
       Returned(j) /\ "cleanup" \in task[j].failed /\ task[j].results # <<>>

\* the faces requested, in the order the grid scan meets them
ScannedSides == SelectSeq(ScanOrder, LAMBDA f : InSides(f, cube_sides))

\* C6: when the cubemap was read, cubemap_splitter's result has one entry per
\* requested face in grid-scan order (x outer, y inner): the tile path of a
\* face that was written, which then exists, and False for a face that
\* failed; a failed face does not stop the scan.
C6_PartialFailureIsolation ==
  \A i \in DOMAIN task :
    (AfterSplit(i) /\ "imread" \notin task[i].failed) =>
      /\ Len(task[i].result_status) = Len(ScannedSides)
      /\ Len(task[i].outcome) = Len(ScannedSides)
      /\ \A k \in 1..Len(ScannedSides) :
           /\ task[i].outcome[k][1] = ScannedSides[k]
           /\ task[i].result_status[k] =
                IF task[i].outcome[k][2] = "written"
                THEN TilePath(i, ScannedSides[k]) ELSE False
           /\ task[i].outcome[k][2] = "written" =>
                /\ TilePath(i, ScannedSides[k]) \in DOMAIN files
                /\ files[TilePath(i, ScannedSides[k])].st = "tile"

C6_Witness ==
  \E i \in DOMAIN task :
    /\ AfterSplit(i)
    /\ cube_sides = <<"back", "left">>
    /\ task[i].outcome = <<<<"left", "written">>, <<"back", "partial">>>>
    /\ task[i].result_status = <<TilePath(i, "left"), False>>

\* C7: when the cubemap cannot be read, cubemap_splitter returns one False
\* per requested face and writes no tile, nothing is raised, and
\* download_clip_img returns no record.
C7_TotalFailure ==
  \A i \in DOMAIN task :
    /\ task[i].pc # "raised"
    /\ (AfterSplit(i) /\ "imread" \in task[i].failed) =>
         /\ Len(task[i].result_status) = Len(cube_sides)
         /\ \A k \in 1..Len(task[i].result_status) : task[i].result_status[k] = False
         /\ \A side \in Faces : TilePath(i, side) \notin DOMAIN files
         /\ Returned(i) => task[i].results = <<>>

C7_Witness ==
  \E i \in DOMAIN task :
    /\ Returned(i) /\ "imread" \in task[i].failed
    /\ Len(cube_sides) = 2
    /\ task[i].result_status = <<False, False>>
    /\ task[i].results = <<>>

\* C8: process_image returns the records of the features in input order,
\* each feature's records together and in the order its call returned them:
\* the length is the sum of the per-feature counts and no entry is falsy.
RECURSIVE OffsetOf(_)
OffsetOf(i) == IF i <= 1 THEN 0 ELSE OffsetOf(i - 1) + Len(task[i - 1].results)

C8_BatchFlattening ==
  batch.pc = "done" =>
    /\ Len(batch.results) = OffsetOf(Len(features) + 1)
    /\ \A k \in 1..Len(batch.results) : DOMAIN batch.results[k] # {}
    /\ \A i \in DOMAIN task : \A j \in 1..Len(task[i].results) :
         batch.results[OffsetOf(i) + j] = task[i].results[j]

C8_Witness ==
  /\ batch.pc = "done"
  /\ Len(features) = 2
  /\ Len(task[1].results) = 6
  /\ Len(task[2].results) = 3
  /\ Len(batch.results) = 9

\* the grid cell of each face, as the claim lists them
FaceCell ==
  [top |-> <<1, 0>>, left |-> <<0, 1>>, front |-> <<1, 1>>,
   right |-> <<2, 1>>, back |-> <<3, 1>>, bottom |-> <<1, 2>>]

\* rows [y*r, y*r+size) and columns [x*r, x*r+size) with r = W - H
ClaimedBox(dims, size, cell) ==
  LET r == dims[1] - dims[2]
  IN  <<cell[2] * r, cell[2] * r + size, cell[1] * r, cell[1] * r + size>>

CubemapRead(i) ==
  /\ AfterSplit(i)
  /\ CubemapPath(i) \in DOMAIN files
  /\ files[CubemapPath(i)].st = "cubemap"

WrittenTile(i, side) ==
  TilePath(i, side) \in DOMAIN files /\ files[TilePath(i, side)].st = "tile"

\* C9: every tile written is cropped from rows [y*r, y*r+size) and columns
\* [x*r, x*r+size) of its face's cell, and files appear only for requested
\* faces.
C9_CropRectangle ==
  \A i \in DOMAIN task :
    CubemapRead(i) =>
      /\ DOMAIN files \subseteq {SourcePath(i), CubemapPath(i)} \cup RequestedTiles(i)
      /\ \A side \in Faces :
           WrittenTile(i, side) =>
             files[TilePath(i, side)].box =
               ClaimedBox(files[CubemapPath(i)].box, image_clip_size, FaceCell[side])

\* C9 as amended: files appear only for requested faces; a tile whose
\* rectangle lies inside the image is cropped from exactly rows
\* [y*r, y*r+size) and columns [x*r, x*r+size); otherwise the slice is cut to
\* the image, and the tile holds a non-empty rectangle inside the image of at
\* most size rows and size columns.
C9_CropRectangleInsideImage ==
  \A i \in DOMAIN task :
    CubemapRead(i) =>
      /\ DOMAIN files \subseteq {SourcePath(i), CubemapPath(i)} \cup RequestedTiles(i)
      /\ \A side \in Faces :
           WrittenTile(i, side) =>
             LET dims == files[CubemapPath(i)].box
                 box == files[TilePath(i, side)].box
                 want == ClaimedBox(dims, image_clip_size, FaceCell[side])
                 inside == /\ 0 <= want[1] /\ want[2] <= dims[2]
                           /\ 0 <= want[3] /\ want[4] <= dims[1]
             IN  /\ inside => box = want
                 /\ 0 <= box[1] /\ box[1] < box[2] /\ box[2] <= dims[2]
                 /\ 0 <= box[3] /\ box[3] < box[4] /\ box[4] <= dims[1]
                 /\ box[2] - box[1] <= image_clip_size
                 /\ box[4] - box[3] <= image_clip_size

C9_Witness ==
  \E i \in DOMAIN task :
    /\ CubemapRead(i)
    /\ files[CubemapPath(i)].box = <<8, 6, 0, 0>>
    /\ image_clip_size = 2
    /\ cube_sides = <<"back", "top">>
    /\ WrittenTile(i, "back") /\ files[TilePath(i, "back")].box = <<2, 4, 6, 8>>
    /\ WrittenTile(i, "top") /\ files[TilePath(i, "top")].box = <<0, 2, 2, 4>>

\* C10: every record a call returns names a tile whose crop and write
\* completed: the file it names is never one whose write failed.
C10_ReportedTilesWereWritten ==
  \A i \in DOMAIN task :
    Returned(i) =>
      \A k \in 1..Len(task[i].results) :
        LET image_path == task[i].results[k].properties.image_path
        IN  image_path \in DOMAIN files => files[image_path].st = "tile"

====
